---- MODULE Spec2Model ----
(***************************************************************************)
(* A model of hillipop.py: the hillipop likelihood engine (construction,   *)
(* _compute_residuals, compute_likelihood) and the Bins binning utility.   *)
(*                                                                         *)
(* Conventions.                                                            *)
(*  - Python lists and numpy arrays are functions over 0..n-1, so that     *)
(*    indices read as in the source.                                       *)
(*  - Real numbers are exact rationals <<n, d>> (d > 0, lowest terms);     *)
(*    floating-point rounding is not modelled.  np.inf appears only as a   *)
(*    divisor and is modelled by the quotient it yields, 0.                *)
(*  - File values are mantissas: a spectrum file holds k for k*1e-12 K^2,  *)
(*    so that the load's "* 1e12" yields k muK^2; the covariance file      *)
(*    holds k for k*1e24 K^-4; a theory Cl holds k for k*2pi*1e-12 K^2, so *)
(*    that l(l+1)/2pi*1e12 * Cl is k*l*(l+1).                              *)
(*  - The source divides integers with "/" (nfreq*(nfreq+1)/2) and passes  *)
(*    the quotient to range(): it is Python 2 code, and the quotient is    *)
(*    the integer one.                                                     *)
(***************************************************************************)
EXTENDS Integers, Sequences, FiniteSets, TLC

VARIABLES
    pars,     \* the parameter file read by hillipop.__init__
    files,    \* the data files the parameter file names
    hp,       \* the hillipop object: its status and its fields
    call,     \* the last operation called on hp, with its arguments
    locals,   \* the local variables of that call when it ended
    ret,      \* what that call returned or raised
    arg,      \* the arguments of a function applied on its own
    bn,       \* the Bins object: its status and its fields
    out       \* what the function applied on its own returned

vars == <<pars, files, hp, call, locals, ret, arg, bn, out>>

(***************************************************************************)
(* Bounds of the model.                                                    *)
(***************************************************************************)
MaxMap == 4
MaxEll == 3
MaxDim == 8
MaxMapAvg == 3
MaxBins == 2
MaxBinEll == 3

(***************************************************************************)
(* Exact rational arithmetic.                                              *)
(***************************************************************************)
Abs(x) == IF x < 0 THEN -x ELSE x

RECURSIVE Gcd(_, _)
Gcd(a, b) == IF b = 0 THEN a ELSE Gcd(b, a % b)

Norm(n, d) ==
    LET g == Gcd(Abs(n), Abs(d))
        s == IF d < 0 THEN -1 ELSE 1
    IN  <<(s * n) \div g, (s * d) \div g>>

Q(n) == <<n, 1>>
RAdd(x, y) ==
    LET g == Gcd(x[2], y[2])
    IN  Norm(x[1] * (y[2] \div g) + y[1] * (x[2] \div g), (x[2] \div g) * y[2])
RNeg(x) == <<-x[1], x[2]>>
RSub(x, y) == RAdd(x, RNeg(y))
RMul(x, y) ==
    LET a == Norm(x[1], y[2])
        b == Norm(y[1], x[2])
    IN  <<a[1] * b[1], a[2] * b[2]>>
RInv(x) == IF x[1] < 0 THEN <<-x[2], -x[1]>> ELSE <<x[2], x[1]>>
RDiv(x, y) == RMul(x, RInv(y))

\* The sum of f[i] over lo..hi, accumulated in ascending order.
RECURSIVE RSum(_, _, _)
RSum(f, lo, hi) == IF hi < lo THEN Q(0) ELSE RAdd(RSum(f, lo, hi - 1), f[hi])

RECURSIVE ISum(_, _, _)
ISum(f, lo, hi) == IF hi < lo THEN 0 ELSE ISum(f, lo, hi - 1) + f[hi]

(***************************************************************************)
(* Lists.                                                                  *)
(***************************************************************************)
LexLess(p, q) == p[1] < q[1] \/ (p[1] = q[1] /\ p[2] < q[2])

\* The list of the pairs of S in the order two nested ascending loops append them.
PairList(S) ==
    [k \in 0..(Cardinality(S) - 1) |->
        CHOOSE p \in S : Cardinality({q \in S : LexLess(q, p)}) = k]

\* list.index(v): the first position of v, or -1 where Python raises ValueError.
Index(lst, v) ==
    IF \E i \in DOMAIN lst : lst[i] = v
    THEN CHOOSE i \in DOMAIN lst : lst[i] = v /\ \A j \in DOMAIN lst : lst[j] = v => i <= j
    ELSE -1

\* list(np.unique(a)): the distinct values of a in ascending order.
Unique(a) ==
    LET S == {a[i] : i \in DOMAIN a}
    IN  [k \in 0..(Cardinality(S) - 1) |->
            CHOOSE v \in S : Cardinality({w \in S : w < v}) = k]

\* Concatenation of two 0-based lists.
Extend(a, b) ==
    LET na == Cardinality(DOMAIN a)
        nb == Cardinality(DOMAIN b)
    IN  [k \in 0..(na + nb - 1) |-> IF k < na THEN a[k] ELSE b[k - na]]

Len0(a) == Cardinality(DOMAIN a)

\* The integer square root, int(np.sqrt(n)).
Isqrt(n) == CHOOSE r \in 0..n : r * r <= n /\ (r + 1) * (r + 1) > n

(***************************************************************************)
(* hillipop._set_lists                                                     *)
(***************************************************************************)
list_cross(nmap) == PairList({p \in (0..(nmap - 1)) \X (0..(nmap - 1)) : p[1] < p[2]})

list_fqs(nfreq) == PairList({p \in (0..(nfreq - 1)) \X (0..(nfreq - 1)) : p[1] <= p[2]})

\* xspec2xfreq, with -1 at a MapPair whose list_fqs.index raises.
xspec2xfreq_of(nmap, fqs) ==
    LET freqs == Unique(fqs)
        lfq == list_fqs(Len0(freqs))
        x2m == list_cross(nmap)
    IN  [xs \in DOMAIN x2m |->
            Index(lfq, <<Index(freqs, fqs[x2m[xs][1]]), Index(freqs, fqs[x2m[xs][2]])>>)]

(***************************************************************************)
(* The files hillipop.__init__ reads.                                      *)
(***************************************************************************)
Freqs == {100, 143}

\* The parameter files: map count, frequency of each map, mode flags, and the
\* optional foreground keys that are present.
ParFiles ==
    UNION {
        {[map |-> n, freq |-> f, TT |-> tt, EE |-> ee, TE |-> te, ET |-> et, keys |-> ks] :
            f \in [0..(n - 1) -> Freqs], tt \in 0..1, ee \in 0..1, te \in 0..1,
            et \in 0..1, ks \in {{}, {"Dust"}}} : n \in 2..MaxMap}

\* One record of the multipole-range file: (lmin, lmax) per cross-spectrum
\* (the source documents the records as array(nmode, nxspec)).
ConstRec(n) == [i \in 0..(n - 1) |-> <<2, MaxEll>>]
AltRec(n) == [i \in 0..(n - 1) |-> <<2 + (i % 2), MaxEll>>]
NarrowRec(n) == [i \in 0..(n - 1) |-> <<MaxEll, MaxEll>>]

\* The multipole-range files: the records of HDU 1..4 (TT, EE, BB, TE), as 0..3.
RangeFiles(n) ==
    { [m \in 0..3 |-> ConstRec(n)],
      [m \in 0..3 |-> IF m = 0 THEN AltRec(n) ELSE ConstRec(n)],
      [m \in 0..3 |-> IF m = 2 THEN NarrowRec(n) ELSE ConstRec(n)] }

\* The cross-spectra files: HDU h of the file of cross-spectrum xs holds a row
\* (ell, Dl, error) for each ell of FileElls; the error is 0 (no variance given) or 1.
FileElls == 2..(MaxEll + 1)
XFileDl(xs, h, l) == xs + l + h
XFileErr(xs, h, l) == (xs + l) % 2

\* The covariance files: a flat record, here tridiagonal when read row by row.
CovLens == {n * n : n \in 0..MaxDim} \cup {2, 5}
CovFile(len) ==
    [k \in 0..(len - 1) |->
        LET n == Isqrt(len)
            i == k \div n
            j == k % n
        IN  IF i = j THEN 2 ELSE IF Abs(i - j) = 1 THEN 1 ELSE 0]

(***************************************************************************)
(* hillipop.__init__ and the loaders it calls.                             *)
(***************************************************************************)
Max(S) == CHOOSE x \in S : \A y \in S : y <= x
Min(S) == CHOOSE x \in S : \A y \in S : x <= y

\* The HDU read for each of the modes TT EE BB TE ET.
Hdu == [m \in 0..4 |-> IF m = 4 THEN 4 ELSE m + 1]

read_dl_xspectra(nxspec, lmax) ==
    [m \in 0..4 |-> [xs \in 0..(nxspec - 1) |-> [l \in 0..lmax |->
        IF l \in FileElls THEN Q(XFileDl(xs, Hdu[m], l)) ELSE Q(0)]]]

read_dl_xerrors(nxspec, lmax) ==
    [m \in 0..4 |-> [xs \in 0..(nxspec - 1) |-> [l \in 0..lmax |->
        LET datacl == IF l \in FileElls THEN XFileErr(xs, Hdu[m], l) ELSE 0
        IN  IF datacl = 0 THEN Q(0) ELSE Norm(1, datacl * datacl)]]]

\* The record of lmins/lmaxs each mode's count reads, as the source writes it.
CountRecord == [TT |-> 0, EE |-> 1, TE |-> 2, ET |-> 3]

\* One mode's term of nell: -1 where xspec2xfreq.index(k) raises.
count_dim(rec, lmins, lmaxs, xspec2xfreq, nxfreq) ==
    IF \E k \in 0..(nxfreq - 1) : Index(xspec2xfreq, k) = -1
    THEN -1
    ELSE ISum([k \in 0..(nxfreq - 1) |->
                  lmaxs[rec][Index(xspec2xfreq, k)] - lmins[rec][Index(xspec2xfreq, k)] + 1],
              0, nxfreq - 1)

ActiveModes(o) ==
    {m \in {"TT", "EE", "TE", "ET"} :
        \/ (m = "TT" /\ o.isTT) \/ (m = "EE" /\ o.isEE)
        \/ (m = "TE" /\ o.isTE) \/ (m = "ET" /\ o.isET)}

\* _read_invcovmatrix: [err, invkll].
read_invcovmatrix(o, data) ==
    LET act == ActiveModes(o)
        terms == [m \in act |->
                     count_dim(CountRecord[m], o.lmins, o.lmaxs, o.xspec2xfreq, o.nxfreq)]
        nell == IF "TT" \in act THEN terms["TT"] ELSE 0
        nell2 == nell + (IF "EE" \in act THEN terms["EE"] ELSE 0)
        nell3 == nell2 + (IF "TE" \in act THEN terms["TE"] ELSE 0)
        nell4 == nell3 + (IF "ET" \in act THEN terms["ET"] ELSE 0)
        nel == Isqrt(Len0(data))
    IN  IF \E m \in act : terms[m] = -1
        THEN [err |-> "ValueError: not in list", invkll |-> <<>>]
        ELSE IF nel * nel # Len0(data)
        THEN [err |-> "ValueError: cannot reshape", invkll |-> <<>>]
        ELSE IF nel # nell4
        THEN [err |-> "ValueError: Incoherent covariance matrix", invkll |-> <<>>]
        ELSE [err |-> "",
              invkll |-> [i \in 0..(nel - 1) |-> [j \in 0..(nel - 1) |-> Q(data[i * nel + j])]]]

\* The foreground models of TT, in the order __init__ appends them.
fgsTT_of(keys) ==
    LET opt(l, key, name) == IF key \in keys THEN Extend(l, [i \in 0..0 |-> name]) ELSE l
    IN  opt(opt(opt(opt(opt([i \in 0..1 |-> IF i = 0 THEN "ps_radio" ELSE "ps_dusty"],
            "Dust", "dust_model"), "SZ", "sz_model"), "CIB", "cib_model"),
            "kSZ", "ksz_model"), "SZxCIB", "szxcib_model")

NoObject(st, err) ==
    [status |-> st, error |-> err, nmap |-> 0, isTT |-> FALSE, isEE |-> FALSE,
     isTE |-> FALSE, isET |-> FALSE, fqs |-> <<>>, nfreq |-> 0, nxfreq |-> 0, nxspec |-> 0,
     xspec2map |-> <<>>, xspec2xfreq |-> <<>>, lmins |-> <<>>, lmaxs |-> <<>>, lmax |-> 0,
     dldata |-> <<>>, dlweight |-> <<>>, invkll |-> <<>>, fgsTT |-> <<>>]

\* hillipop.__init__(paramfile) with the files rf, cf behind the paths it names.
hillipop_new(p, rf, cf) ==
    LET nmap == p.map
        fqs == p.freq
        nfreq == Len0(Unique(fqs))
        nxfreq == (nfreq * (nfreq + 1)) \div 2
        nxspec == (nmap * (nmap - 1)) \div 2
        x2f == xspec2xfreq_of(nmap, fqs)
        lmins == [m \in 0..3 |-> [i \in DOMAIN rf[m] |-> rf[m][i][1]]]
        lmaxs == [m \in 0..3 |-> [i \in DOMAIN rf[m] |-> rf[m][i][2]]]
        lmax == Max({lmaxs[m][i] : m \in 0..3, i \in 0..(nxspec - 1)})
        o == [NoObject("ready", "") EXCEPT
                 !.nmap = nmap, !.isTT = (p.TT = 1), !.isEE = (p.EE = 1),
                 !.isTE = (p.TE = 1), !.isET = (p.ET = 1), !.fqs = fqs,
                 !.nfreq = nfreq, !.nxfreq = nxfreq, !.nxspec = nxspec,
                 !.xspec2map = list_cross(nmap), !.xspec2xfreq = x2f,
                 !.lmins = lmins, !.lmaxs = lmaxs, !.lmax = lmax,
                 !.dldata = read_dl_xspectra(nxspec, lmax),
                 !.dlweight = read_dl_xerrors(nxspec, lmax),
                 !.fgsTT = IF p.TT = 1 THEN fgsTT_of(p.keys) ELSE <<>>]
        cov == read_invcovmatrix(o, cf)
    IN  IF \E xs \in DOMAIN x2f : x2f[xs] = -1
        THEN NoObject("failed", "_set_lists: ValueError: not in list")
        ELSE IF cov.err # ""
        THEN NoObject("failed", cov.err)
        ELSE [o EXCEPT !.invkll = cov.invkll]

(***************************************************************************)
(* hillipop._select_spectra and hillipop._xspectra_to_xfreq                *)
(***************************************************************************)
Range0(n) == [i \in 0..(n - 1) |-> i]

\* A slip: the slice acl[xf, lmin:lmax], which drops the multipole lmax.
Slice_exclusive(row, lmin, lmax) ==
    LET hi == IF lmax - 1 < Len0(row) - 1 THEN lmax - 1 ELSE Len0(row) - 1
        n == IF hi < lmin THEN 0 ELSE hi - lmin + 1
    IN  [i \in 0..(n - 1) |-> row[lmin + i]]

\* acl[xf, lmin:lmax+1] as a list.
Slice(row, lmin, lmax) ==
    LET hi == IF lmax < Len0(row) - 1 THEN lmax ELSE Len0(row) - 1
        n == IF hi < lmin THEN 0 ELSE hi - lmin + 1
    IN  [i \in 0..(n - 1) |-> row[lmin + i]]

\* The list xl after the first n passes of the loop over xf.
RECURSIVE select_loop(_, _, _, _)
select_loop(o, cl, mode, n) ==
    IF n = 0 THEN <<>>
    ELSE LET xf == n - 1
             lmin == o.lmins[mode][Index(o.xspec2xfreq, xf)]
             lmax == o.lmaxs[mode][Index(o.xspec2xfreq, xf)]
         IN  Extend(select_loop(o, cl, mode, n - 1), Slice(cl[xf], lmin, lmax))

\* _select_spectra(cl, mode): [err, xl].
select_spectra(o, cl, mode) ==
    IF \E xf \in 0..(o.nxfreq - 1) : Index(o.xspec2xfreq, xf) = -1
    THEN [err |-> "ValueError: not in list", xl |-> <<>>]
    ELSE [err |-> "", xl |-> select_loop(o, cl, mode, o.nxfreq)]

\* A slip: "=" for "+=", so that the last cross-spectrum of a bucket wins.
RECURSIVE accumulate_overwrite(_, _, _, _, _)
accumulate_overwrite(o, cl, weight, ord, n) ==
    IF n = 0
    THEN [xcl |-> [xf \in 0..(o.nxfreq - 1) |-> [l \in 0..o.lmax |-> Q(0)]],
          xw8 |-> [xf \in 0..(o.nxfreq - 1) |-> [l \in 0..o.lmax |-> Q(0)]]]
    ELSE LET prev == accumulate_overwrite(o, cl, weight, ord, n - 1)
             xs == ord[n - 1]
             xf == o.xspec2xfreq[xs]
         IN  [xcl |-> [prev.xcl EXCEPT ![xf] =
                          [l \in 0..o.lmax |-> RMul(weight[xs][l], cl[xs][l])]],
              xw8 |-> [prev.xw8 EXCEPT ![xf] = [l \in 0..o.lmax |-> weight[xs][l]]]]

\* xcl and xw8 after the loop has added the cross-spectra ord[0..n-1].
RECURSIVE accumulate(_, _, _, _, _)
accumulate(o, cl, weight, ord, n) ==
    IF n = 0
    THEN [xcl |-> [xf \in 0..(o.nxfreq - 1) |-> [l \in 0..o.lmax |-> Q(0)]],
          xw8 |-> [xf \in 0..(o.nxfreq - 1) |-> [l \in 0..o.lmax |-> Q(0)]]]
    ELSE LET prev == accumulate(o, cl, weight, ord, n - 1)
             xs == ord[n - 1]
             xf == o.xspec2xfreq[xs]
         IN  [xcl |-> [prev.xcl EXCEPT ![xf] =
                          [l \in 0..o.lmax |-> RAdd(@[l], RMul(weight[xs][l], cl[xs][l]))]],
              xw8 |-> [prev.xw8 EXCEPT ![xf] =
                          [l \in 0..o.lmax |-> RAdd(@[l], weight[xs][l])]]]

\* xw8[xw8 == 0] = np.inf; xcl / xw8.
average(o, acc) ==
    [xf \in 0..(o.nxfreq - 1) |-> [l \in 0..o.lmax |->
        IF acc.xw8[xf][l] = Q(0) THEN Q(0) ELSE RDiv(acc.xcl[xf][l], acc.xw8[xf][l])]]

xspectra_to_xfreq(o, cl, weight) ==
    average(o, accumulate(o, cl, weight, Range0(o.nxspec), o.nxspec))

(***************************************************************************)
(* hillipop._compute_residuals and hillipop.compute_likelihood             *)
(***************************************************************************)
\* The arguments of a call: the nuisance parameters Aplanck and c0..c(nmap-1),
\* the theory Cl (one row per mode, lmax+2 columns), and what each foreground
\* model's compute_dl returns for these parameters.  The calls drawn are a
\* reference call, one with other nuisances and one with foregrounds.
Args(o, A, cm, k, g) ==
    [Aplanck |-> Q(A), c |-> [m \in 0..(o.nmap - 1) |-> Q(cm)],
     cl_boltz |-> [r \in 0..0 |-> [l \in 0..(o.lmax + 1) |-> Q(k)]], fg |-> g]

CallArgs(o) ==
    {Args(o, 1, 0, 1, 0), Args(o, 2, 1, 1, 0), Args(o, 1, 0, 1, 1)}

\* fg.compute_dl(pars) of the f-th model of a list: one spectrum per cross-spectrum.
fg_compute_dl(o, a, f) ==
    [xs \in 0..(o.nxspec - 1) |-> [l \in 0..o.lmax |-> Q(a.fg * (f + 1 + xs))]]

\* np.asarray(cl_boltz)[:,lth] * (lth*(lth+1)/2./np.pi * 1e12)
dlth_of(o, a) ==
    [r \in DOMAIN a.cl_boltz |-> [l \in 0..o.lmax |-> RMul(a.cl_boltz[r][l], Q(l * (l + 1)))]]

\* The nuisances of _compute_residuals.
cal_residuals(o, a) ==
    [xs \in 0..(o.nxspec - 1) |->
        RMul(RMul(a.Aplanck, a.Aplanck),
             RAdd(RAdd(Q(1), a.c[o.xspec2map[xs][1]]), a.c[o.xspec2map[xs][2]]))]

\* The nuisances of compute_likelihood.
cal_likelihood(o, a) ==
    [xs \in 0..(o.nxspec - 1) |->
        RMul(RMul(a.Aplanck, a.Aplanck),
             RMul(RAdd(Q(1), a.c[o.xspec2map[xs][1]]), RAdd(Q(1), a.c[o.xspec2map[xs][2]])))]

\* dlmodel after "dlmodel += fg.compute_dl(pars)" for the first n models: the
\* left operand is a list, so "+=" is list.extend.
RECURSIVE dlmodel_of(_, _, _, _)
dlmodel_of(o, a, dlth, n) ==
    IF n = 0 THEN [xs \in 0..(o.nxspec - 1) |-> dlth[0]]
    ELSE Extend(dlmodel_of(o, a, dlth, n - 1), fg_compute_dl(o, a, n - 1))

\* [self.dldata[0][xs] - cal[xs]*dlmodel[xs] for xs in range(self.nxspec)]
Rspec_of(o, cal, dlmodel) ==
    [xs \in 0..(o.nxspec - 1) |-> [l \in 0..o.lmax |->
        RSub(o.dldata[0][xs][l], RMul(cal[xs], dlmodel[xs][l]))]]

NoLocals == [cal |-> <<>>, dlmodel |-> <<>>, Rspec |-> <<>>, Rl |-> <<>>, Xl |-> <<>>]
Raise(e) == [kind |-> "raise", error |-> e, value |-> <<>>]
Return(v) == [kind |-> "return", error |-> "", value |-> v]

\* _compute_residuals(pars, cl_boltz): [locals, ret].
compute_residuals_of(o, a) ==
    LET dlth == dlth_of(o, a)
        cal == cal_residuals(o, a)
        dlmodel == dlmodel_of(o, a, dlth, Len0(o.fgsTT))
        Rspec == Rspec_of(o, cal, dlmodel)
        Rl == xspectra_to_xfreq(o, Rspec, o.dlweight[0])
    IN  IF o.isTT
        THEN [locals |-> [NoLocals EXCEPT !.cal = cal, !.dlmodel = dlmodel,
                                          !.Rspec = Rspec, !.Rl = Rl],
              ret |-> Return(Rl)]
        ELSE [locals |-> [NoLocals EXCEPT !.cal = cal],
              ret |-> Raise("UnboundLocalError: Rl")]

\* Xl.dot(self.invkll).dot(Xl)
quadratic_form(X, M) ==
    LET n == Len0(X)
        XM == [j \in 0..(n - 1) |-> RSum([i \in 0..(n - 1) |-> RMul(X[i], M[i][j])], 0, n - 1)]
    IN  RSum([j \in 0..(n - 1) |-> RMul(XM[j], X[j])], 0, n - 1)

\* compute_likelihood(pars, cl_boltz): [locals, ret].
compute_likelihood_of(o, a) ==
    LET dlth == dlth_of(o, a)
        cal == cal_likelihood(o, a)
        dlmodel == dlmodel_of(o, a, dlth, Len0(o.fgsTT))
        Rspec == Rspec_of(o, cal, dlmodel)
        Rl == xspectra_to_xfreq(o, Rspec, o.dlweight[0])
        sel == select_spectra(o, Rl, 0)
        loc == [NoLocals EXCEPT !.cal = cal, !.dlmodel = dlmodel, !.Rspec = Rspec, !.Rl = Rl]
    IN  IF ~o.isTT
        THEN [locals |-> [NoLocals EXCEPT !.cal = cal], ret |-> Raise("UnboundLocalError: Xl")]
        ELSE IF sel.err # ""
        THEN [locals |-> loc, ret |-> Raise(sel.err)]
        ELSE IF Len0(sel.xl) # Len0(o.invkll)
        THEN [locals |-> [loc EXCEPT !.Xl = sel.xl],
              ret |-> Raise("ValueError: shapes not aligned")]
        ELSE [locals |-> [loc EXCEPT !.Xl = sel.xl],
              ret |-> Return(quadratic_form(sel.xl, o.invkll))]

(***************************************************************************)
(* The engine: one parameter file, one construction, then any calls.       *)
(***************************************************************************)
NoCall == [op |-> "none", args |-> <<>>]
NoRet == [kind |-> "none", error |-> "", value |-> <<>>]
NoBins == [status |-> "new", lmins |-> <<>>, lmaxs |-> <<>>, lmin |-> 0, lmax |-> 0,
           nbins |-> 0]

\* The files a parameter file can name: a multipole-range file with one entry
\* per cross-spectrum, and a covariance file given by its length.
DataFiles(p) ==
    [ranges : RangeFiles((p.map * (p.map - 1)) \div 2), covlen : CovLens]

Init ==
    /\ pars \in ParFiles
    /\ files \in DataFiles(pars)
    /\ hp = NoObject("new", "")
    /\ call = NoCall
    /\ locals = NoLocals
    /\ ret = NoRet
    /\ arg = <<>>
    /\ bn = NoBins
    /\ out = <<>>

hillipop_init ==
    /\ hp.status = "new"
    /\ hp' = hillipop_new(pars, files.ranges, CovFile(files.covlen))
    /\ UNCHANGED <<pars, files, call, locals, ret, arg, bn, out>>

compute_residuals ==
    /\ hp.status = "ready"
    /\ \E a \in CallArgs(hp) :
          LET r == compute_residuals_of(hp, a)
          IN  /\ call' = [op |-> "_compute_residuals", args |-> a]
              /\ locals' = r.locals
              /\ ret' = r.ret
    /\ UNCHANGED <<pars, files, hp, arg, bn, out>>

\* A slip: the residual subtracted in place, "self.dldata[0][xs] -= ...".
compute_likelihood_inplace ==
    /\ hp.status = "ready"
    /\ \E a \in CallArgs(hp) :
          LET r == compute_likelihood_of(hp, a)
          IN  /\ call' = [op |-> "compute_likelihood", args |-> a]
              /\ locals' = r.locals
              /\ ret' = r.ret
              /\ hp' = IF hp.isTT
                        THEN [hp EXCEPT !.dldata = [@ EXCEPT ![0] = r.locals.Rspec]]
                        ELSE hp
    /\ UNCHANGED <<pars, files, arg, bn, out>>

compute_likelihood ==
    /\ hp.status = "ready"
    /\ \E a \in CallArgs(hp) :
          LET r == compute_likelihood_of(hp, a)
          IN  /\ call' = [op |-> "compute_likelihood", args |-> a]
              /\ locals' = r.locals
              /\ ret' = r.ret
    /\ UNCHANGED <<pars, files, hp, arg, bn, out>>

Next == hillipop_init \/ compute_residuals \/ compute_likelihood

Spec == Init /\ [][Next]_vars

(***************************************************************************)
(* hillipop._xspectra_to_xfreq applied on its own: any frequency           *)
(* assignment _set_lists accepts, any weights, any accumulation order      *)
(* (the source's order is Range0(nxspec)).                                 *)
(***************************************************************************)
Permutations0(n) ==
    {f \in [0..(n - 1) -> 0..(n - 1)] : \A i, j \in 0..(n - 1) : f[i] = f[j] => i = j}

\* The object once _set_lists has run, with lmax = 1.
lists_object(nmap, fqs) ==
    LET nfreq == Len0(Unique(fqs))
    IN  [NoObject("lists", "") EXCEPT
            !.nmap = nmap, !.fqs = fqs, !.nfreq = nfreq,
            !.nxfreq = (nfreq * (nfreq + 1)) \div 2, !.nxspec = (nmap * (nmap - 1)) \div 2,
            !.xspec2map = list_cross(nmap), !.xspec2xfreq = xspec2xfreq_of(nmap, fqs),
            !.lmax = 1]

AvgSpectra(o) ==
    {[xs \in 0..(o.nxspec - 1) |-> [l \in 0..o.lmax |-> Q(xs + l + 1)]],
     [xs \in 0..(o.nxspec - 1) |-> [l \in 0..o.lmax |-> Q((1 - 2 * l) * (xs + 1))]]}

AvgWeights(o) ==
    {[xs \in 0..(o.nxspec - 1) |-> [l \in 0..o.lmax |-> Q(0)]],
     [xs \in 0..(o.nxspec - 1) |-> [l \in 0..o.lmax |-> Q(1)]],
     [xs \in 0..(o.nxspec - 1) |-> [l \in 0..o.lmax |-> Q(l)]],
     [xs \in 0..(o.nxspec - 1) |-> [l \in 0..o.lmax |->
         IF (xs + l) % 3 = 0 THEN Q(0) ELSE Norm(1, ((xs + l) % 3) * ((xs + l) % 3))]]}

\* The frequency assignments _set_lists accepts: ascending along the map index.
AscendingFreqs(n) ==
    {g \in [0..(n - 1) -> Freqs] : \A i \in 0..(n - 2) : g[i] <= g[i + 1]}

AvgArgsOf(o) ==
    {[self |-> o, cl |-> c, weight |-> w] : c \in AvgSpectra(o), w \in AvgWeights(o)}

AvgArgs ==
    UNION {UNION {AvgArgsOf(lists_object(n, f)) : f \in AscendingFreqs(n)} : n \in 2..MaxMapAvg}

InitAvg ==
    /\ pars = <<>>
    /\ files = <<>>
    /\ hp = NoObject("new", "")
    /\ call = NoCall
    /\ locals = NoLocals
    /\ ret = NoRet
    /\ arg \in AvgArgs
    /\ bn = NoBins
    /\ out = <<>>

xspectra_to_xfreq_apply ==
    /\ out = <<>>
    /\ \E ord \in Permutations0(arg.self.nxspec) :
          out' = [ord |-> ord,
                  Rl |-> average(arg.self,
                                 accumulate(arg.self, arg.cl, arg.weight, ord, arg.self.nxspec))]
    /\ UNCHANGED <<pars, files, hp, call, locals, ret, arg, bn>>

NextAvg == xspectra_to_xfreq_apply

SpecAvg == InitAvg /\ [][NextAvg]_vars

(***************************************************************************)
(* Bins                                                                    *)
(***************************************************************************)
\* A slip: np.logical_or for np.logical_and.
cutfirst_or(lmins, lmaxs) ==
    LET keep == {i \in DOMAIN lmins : lmaxs[i] >= 2 \/ lmins[i] >= 2}
    IN  [k \in 0..(Cardinality(keep) - 1) |->
            CHOOSE i \in keep : Cardinality({j \in keep : j < i}) = k]

\* The positions kept by np.logical_and(lmaxs>=2, lmins>=2), in order.
cutfirst(lmins, lmaxs) ==
    LET keep == {i \in DOMAIN lmins : lmaxs[i] >= 2 /\ lmins[i] >= 2}
    IN  [k \in 0..(Cardinality(keep) - 1) |->
            CHOOSE i \in keep : Cardinality({j \in keep : j < i}) = k]

BinsError(e) == [NoBins EXCEPT !.status = "failed: " \o e]

\* _derive_ext on the lists lmins, lmaxs.
derive_ext(lmins, lmaxs) ==
    IF \E i \in DOMAIN lmins : lmins[i] > lmaxs[i]
    THEN BinsError("ValueError: Incoherent inputs")
    ELSE IF DOMAIN lmins = {}
    THEN BinsError("ValueError: min() arg is an empty sequence")
    ELSE LET lmin == Min({lmins[i] : i \in DOMAIN lmins})
             lmax == Max({lmaxs[i] : i \in DOMAIN lmaxs})
         IN  IF lmin < 1
             THEN BinsError("ValueError: Input lmin is less than 1.")
             ELSE IF lmax < lmin
             THEN BinsError("ValueError: Input lmax is less than lmin.")
             ELSE [status |-> "ready", lmins |-> lmins, lmaxs |-> lmaxs, lmin |-> lmin,
                   lmax |-> lmax, nbins |-> Len0(lmins)]

\* Bins.__init__(lmins, lmaxs)
Bins_new(lmins, lmaxs) ==
    IF Len0(lmins) # Len0(lmaxs)
    THEN BinsError("ValueError: Incoherent inputs")
    ELSE LET cut == cutfirst(lmins, lmaxs)
         IN  derive_ext([k \in DOMAIN cut |-> lmins[cut[k]]], [k \in DOMAIN cut |-> lmaxs[cut[k]]])

\* Python's floor division by a positive divisor.
FloorDiv(a, b) == IF a >= 0 THEN a \div b ELSE -((-a + b - 1) \div b)

\* Bins.fromdeltal(lmin, lmax, delta_ell)
Bins_fromdeltal_new(lmin, lmax, delta_ell) ==
    LET nbins == FloorDiv(lmax - lmin + 1, delta_ell)
        lmins == [k \in 0..(nbins - 1) |-> lmin + k * delta_ell]
        lmaxs == [k \in 0..(nbins - 1) |-> lmins[k] + delta_ell - 1]
    IN  Bins_new(lmins, lmaxs)

\* A slip: the weight not divided by the bin's width.
bin_operators_sum(o, Dl) ==
    [b \in 0..(o.nbins - 1) |-> [l \in 0..o.lmax |->
        IF o.lmins[b] <= l /\ l <= o.lmaxs[b]
        THEN (IF Dl THEN Q(l * (l + 1)) ELSE Q(1))
        ELSE Q(0)]]

\* The operator p of _bin_operators(Dl): with Dl, ell2 is in units of 1/(2 pi).
bin_operators(o, Dl) ==
    [b \in 0..(o.nbins - 1) |-> [l \in 0..o.lmax |->
        LET a == o.lmins[b]
            z == o.lmaxs[b]
            dl == z - a + 1
            ell2 == IF Dl THEN Q(l * (l + 1)) ELSE Q(1)
        IN  IF a <= l /\ l <= z THEN RDiv(ell2, Q(dl)) ELSE Q(0)]]

\* bin_spectra(spectra) for a one-dimensional spectrum.
bin_spectra_of(o, spectra) ==
    LET minlmax == IF Len0(spectra) - 1 < o.lmax THEN Len0(spectra) - 1 ELSE o.lmax
        p == bin_operators(o, FALSE)
    IN  [b \in 0..(o.nbins - 1) |->
            RSum([l \in 0..minlmax |-> RMul(spectra[l], p[b][l])], 0, minlmax)]

BoundLists ==
    UNION {[0..(n - 1) -> 0..MaxBinEll] : n \in 0..MaxBins}

BinsArgs ==
    {[ctor |-> "__init__", lmins |-> a, lmaxs |-> b] : a \in BoundLists, b \in BoundLists}
    \cup {[ctor |-> "fromdeltal", lmin |-> a, lmax |-> b, delta_ell |-> d] :
            a \in 0..MaxBinEll, b \in 0..MaxBinEll, d \in 1..MaxBins}

\* The spectra binned: shorter than, as long as, and longer than lmax + 1.
BinSpectra(o) ==
    {[l \in 0..n |-> Q(IF k = 0 THEN 3 ELSE l * l + 1)] :
        n \in {o.lmax - 1, o.lmax, o.lmax + 1}, k \in 0..1}

InitBins ==
    /\ pars = <<>>
    /\ files = <<>>
    /\ hp = NoObject("new", "")
    /\ call = NoCall
    /\ locals = NoLocals
    /\ ret = NoRet
    /\ arg \in BinsArgs
    /\ bn = NoBins
    /\ out = <<>>

Bins_init ==
    /\ bn.status = "new"
    /\ arg.ctor = "__init__"
    /\ bn' = Bins_new(arg.lmins, arg.lmaxs)
    /\ UNCHANGED <<pars, files, hp, call, locals, ret, arg, out>>

Bins_fromdeltal ==
    /\ bn.status = "new"
    /\ arg.ctor = "fromdeltal"
    /\ bn' = Bins_fromdeltal_new(arg.lmin, arg.lmax, arg.delta_ell)
    /\ UNCHANGED <<pars, files, hp, call, locals, ret, arg, out>>

bin_spectra ==
    /\ bn.status = "ready"
    /\ \E sp \in BinSpectra(bn) :
          out' = [spectra |-> sp, binned |-> bin_spectra_of(bn, sp)]
    /\ UNCHANGED <<pars, files, hp, call, locals, ret, arg, bn>>

NextBins == Bins_init \/ Bins_fromdeltal \/ bin_spectra

SpecBins == InitBins /\ [][NextBins]_vars

(***************************************************************************)
(* What the claims state, written from their words.                        *)
(***************************************************************************)
Ready == hp.status = "ready"
Constructed == hp.status \in {"ready", "failed"}
SetListsError == "_set_lists: ValueError: not in list"

\* The sum of f over the finite set S.
RECURSIVE RSumSet(_, _)
RSumSet(S, f) ==
    IF S = {} THEN Q(0)
    ELSE LET x == Max(S) IN RAdd(f[x], RSumSet(S \ {x}, f))

\* The flat vector that keeps, for xf = 0, 1, ... in turn, the multipoles
\* lmin..lmax of the TT record's entry idx[xf] from the row R[xf].
CutBy(o, R, idx) ==
    LET w == [xf \in 0..(o.nxfreq - 1) |-> o.lmaxs[0][idx[xf]] - o.lmins[0][idx[xf]] + 1]
        off == [xf \in 0..(o.nxfreq - 1) |-> ISum(w, 0, xf - 1)]
        total == ISum(w, 0, o.nxfreq - 1)
    IN  [k \in 0..(total - 1) |->
            LET xf == CHOOSE x \in 0..(o.nxfreq - 1) : off[x] <= k /\ k < off[x] + w[x]
            IN  R[xf][o.lmins[0][idx[xf]] + k - off[xf]]]

\* The first cross-spectrum, in canonical order, mapped to the cross-frequency xf.
FirstMapPair(o, xf) ==
    CHOOSE xs \in 0..(o.nxspec - 1) :
        o.xspec2xfreq[xs] = xf /\ \A ys \in 0..(xs - 1) : o.xspec2xfreq[ys] # xf

\* The record each mode's multipole ranges come from: TE and ET share TE's.
ModeRecord == [TT |-> 0, EE |-> 1, TE |-> 3, ET |-> 3]

ParModes(p) ==
    {m \in {"TT", "EE", "TE", "ET"} :
        \/ (m = "TT" /\ p.TT = 1) \/ (m = "EE" /\ p.EE = 1)
        \/ (m = "TE" /\ p.TE = 1) \/ (m = "ET" /\ p.ET = 1)}

ParNfreq(p) == Cardinality({p.freq[m] : m \in DOMAIN p.freq})
ParNxfreq(p) == (ParNfreq(p) * (ParNfreq(p) + 1)) \div 2
ParNxspec(p) == (p.map * (p.map - 1)) \div 2

\* The retained-bin count: over every active mode and every cross-frequency
\* index xf, the width of the entry xf of that mode's own record.
RECURSIVE RetainedBins(_, _, _)
RetainedBins(p, f, modes) ==
    IF modes = {} THEN 0
    ELSE LET m == CHOOSE x \in modes : TRUE
             r == f.ranges[ModeRecord[m]]
         IN  ISum([xf \in 0..(ParNxfreq(p) - 1) |-> r[xf][2] - r[xf][1] + 1],
                  0, ParNxfreq(p) - 1)
             + RetainedBins(p, f, modes \ {m})

\* C1 (as claimed).  Whatever modes are active, compute_likelihood returns a
\* value, the quadratic form of a vector X whose length is the dimension of
\* the inverse covariance matrix.
C1_VectorSpansActiveModes ==
    (Ready /\ call.op = "compute_likelihood") =>
        /\ ret.kind = "return"
        /\ Len0(locals.Xl) = Len0(hp.invkll)
        /\ ret.value = quadratic_form(locals.Xl, hp.invkll)

\* C2 (as claimed).  In _compute_residuals and in compute_likelihood alike the
\* calibration factor of the MapPair (m1, m2) is Aplanck^2 (1 + c_m1)(1 + c_m2).
C2_CalibrationIsProduct ==
    (Ready /\ call.op # "none") =>
        \A xs \in 0..(hp.nxspec - 1) :
            locals.cal[xs] =
                RMul(RMul(call.args.Aplanck, call.args.Aplanck),
                     RMul(RAdd(Q(1), call.args.c[hp.xspec2map[xs][1]]),
                          RAdd(Q(1), call.args.c[hp.xspec2map[xs][2]])))

C4_CovarianceDimension ==
    (Constructed /\ hp.error # SetListsError /\ ParNxfreq(pars) <= ParNxspec(pars)) =>
        (Ready <=> /\ Isqrt(files.covlen) * Isqrt(files.covlen) = files.covlen
                   /\ Isqrt(files.covlen) = RetainedBins(pars, files, ParModes(pars)))

\* C6.  The setup state of a constructed engine is, after any calls, what the
\* construction made of the files, and the value a call returned is the value
\* the same call returns on the engine as constructed.
C6_SetupStateUnchanged ==
    Ready =>
        LET fresh == hillipop_new(pars, files.ranges, CovFile(files.covlen))
        IN  /\ hp = fresh
            /\ call.op = "_compute_residuals" => ret = compute_residuals_of(fresh, call.args).ret
            /\ call.op = "compute_likelihood" => ret = compute_likelihood_of(fresh, call.args).ret

C6_Witness ==
    /\ Ready
    /\ call.op = "compute_likelihood"
    /\ ret.kind = "return"
    /\ ret.value # Q(0)

\* The position of the unordered pair of the frequencies of the maps m1, m2 in
\* the list of the pairs (f1 <= f2) of the sorted distinct frequencies.
PairPosition(p, m1, m2) ==
    LET rank(f) == Cardinality({g \in {p.freq[m] : m \in DOMAIN p.freq} : g < f})
        a == Min({rank(p.freq[m1]), rank(p.freq[m2])})
        b == Max({rank(p.freq[m1]), rank(p.freq[m2])})
    IN  a * ParNfreq(p) - ((a * (a - 1)) \div 2) + (b - a)

\* C7 (as claimed).  Whatever the order of the frequencies along the map index,
\* _set_lists maps every MapPair to the position of its unordered frequency
\* pair; with the frequencies 100, 143, 217 the MapPairs map to 1, 2, 4.
C7_EveryMapPairMapped ==
    /\ xspec2xfreq_of(3, [m \in 0..2 |-> IF m = 0 THEN 100 ELSE IF m = 1 THEN 143 ELSE 217])
           = [xs \in 0..2 |-> IF xs = 0 THEN 1 ELSE IF xs = 1 THEN 2 ELSE 4]
    /\ Constructed =>
          /\ hp.error # SetListsError
          /\ Ready => \A xs \in 0..(hp.nxspec - 1) :
                          hp.xspec2xfreq[xs] =
                              PairPosition(pars, hp.xspec2map[xs][1], hp.xspec2map[xs][2])

\* C8 (as claimed).  The cut keeps from the averaged residual of xf the
\* multipoles lmin..lmax of the entry at index xf of the TT record, in
\* ascending xf, and never fails.
C8_CutReadsEntryOfCrossFrequency ==
    (Ready /\ call.op = "compute_likelihood" /\ hp.isTT) =>
        /\ ret.error # "ValueError: not in list"
        /\ locals.Xl = CutBy(hp, locals.Rl, [xf \in 0..(hp.nxfreq - 1) |-> xf])

\* C8 (amended).  In a constructed engine every cross-frequency receives a
\* MapPair, and the cut keeps from the averaged residual of xf the multipoles
\* lmin..lmax of the entry of the TT record at the index of the first MapPair
\* mapped to xf (the record has one entry per MapPair), in ascending xf; it
\* never fails.
C8_CutReadsEntryOfFirstMapPair ==
    (Ready /\ call.op = "compute_likelihood" /\ hp.isTT) =>
        /\ \A xf \in 0..(hp.nxfreq - 1) : \E xs \in 0..(hp.nxspec - 1) : hp.xspec2xfreq[xs] = xf
        /\ ret.error # "ValueError: not in list"
        /\ locals.Xl = CutBy(hp, locals.Rl, [xf \in 0..(hp.nxfreq - 1) |-> FirstMapPair(hp, xf)])

C8_Witness ==
    /\ Ready
    /\ call.op = "compute_likelihood"
    /\ ret.kind = "return"
    /\ \E xf \in 0..(hp.nxfreq - 1) :
          /\ FirstMapPair(hp, xf) # xf
          /\ hp.lmins[0][FirstMapPair(hp, xf)] # hp.lmins[0][xf]
    /\ \E k \in DOMAIN locals.Xl : locals.Xl[k] # Q(0)

\* C9.  Whatever the accumulation order, the average of a bucket at a
\* multipole is the sum of weight * residual over the MapPairs of the bucket
\* divided by the sum of their weights, and zero where that sum is zero.
C9_WeightedAverage ==
    (arg # <<>> /\ out # <<>>) =>
        \A xf \in 0..(arg.self.nxfreq - 1), l \in 0..arg.self.lmax :
            LET S == {xs \in 0..(arg.self.nxspec - 1) : arg.self.xspec2xfreq[xs] = xf}
                W == RSumSet(S, [xs \in S |-> arg.weight[xs][l]])
                N == RSumSet(S, [xs \in S |-> RMul(arg.weight[xs][l], arg.cl[xs][l])])
            IN  out.Rl[xf][l] = IF W = Q(0) THEN Q(0) ELSE RDiv(N, W)

C9_Witness ==
    /\ arg # <<>>
    /\ out # <<>>
    /\ out.ord # Range0(arg.self.nxspec)
    /\ \E xf \in 0..(arg.self.nxfreq - 1) :
          /\ \A xs \in 0..(arg.self.nxspec - 1) : arg.self.xspec2xfreq[xs] # xf
          /\ out.Rl[xf][0] = Q(0)
    /\ \E xs, ys \in 0..(arg.self.nxspec - 1) :
          /\ xs # ys
          /\ arg.self.xspec2xfreq[xs] = arg.self.xspec2xfreq[ys]
          /\ arg.weight[xs][0] # arg.weight[ys][0]
          /\ arg.weight[xs][0] # Q(0)
          /\ arg.weight[ys][0] # Q(0)
          /\ out.Rl[arg.self.xspec2xfreq[xs]][0] # Q(0)

\* The input bins with both bounds at least 2.
Retained(a) == {i \in DOMAIN a.lmins : a.lmins[i] >= 2 /\ a.lmaxs[i] >= 2}

\* C5 (as claimed).  Construction fails if the lists differ in length, if any
\* input bin has lmin > lmax, if the global lmin is below 1 or the global lmax
\* below the global lmin; otherwise it succeeds with as many bins as input
\* bins have both bounds at least 2.
C5_FailsOnAnyIncoherentBin ==
    (bn.status # "new" /\ arg.ctor = "__init__") =>
        LET differ == Len0(arg.lmins) # Len0(arg.lmaxs)
            kept == Retained(arg)
            bad == \/ differ
                   \/ \E i \in DOMAIN arg.lmins : arg.lmins[i] > arg.lmaxs[i]
                   \/ /\ kept # {}
                      /\ \/ Min({arg.lmins[i] : i \in kept}) < 1
                         \/ Max({arg.lmaxs[i] : i \in kept}) < Min({arg.lmins[i] : i \in kept})
        IN  IF bad THEN bn.status # "ready"
            ELSE bn.status = "ready" /\ bn.nbins = Cardinality(kept)

\* C5 (amended).  Construction fails if the lists differ in length, if a bin
\* with both bounds at least 2 has lmin > lmax, or if no bin has both bounds
\* at least 2; otherwise it succeeds with as many bins as input bins have
\* both bounds at least 2.
C5_FailsOnRetainedIncoherentBin ==
    (bn.status # "new" /\ arg.ctor = "__init__") =>
        LET differ == Len0(arg.lmins) # Len0(arg.lmaxs)
            bad == \/ differ
                   \/ \E i \in Retained(arg) : arg.lmins[i] > arg.lmaxs[i]
                   \/ Retained(arg) = {}
        IN  IF bad THEN bn.status # "ready"
            ELSE bn.status = "ready" /\ bn.nbins = Cardinality(Retained(arg))

C5_Witness ==
    /\ bn.status = "ready"
    /\ arg.ctor = "__init__"
    /\ bn.nbins = 1
    /\ \E i \in DOMAIN arg.lmins : arg.lmins[i] > arg.lmaxs[i]

====
